---- MODULE Spec2Model ----
(***************************************************************************)
(* Task Tracker (src/index.tsx): the TaskTrackerApp component's data layer *)
(* as a state machine.  Each browser tab is one instance of the component; *)
(* all tabs share one localStorage.  A handler runs to completion, and the *)
(* save effect that React schedules after a handler changed users,         *)
(* projects, tasks or currentUser is part of the same step.                *)
(*                                                                         *)
(* Not modelled: the modal visibility flags and the markup (view state     *)
(* that no handler reads), the dueDate form field (never copied into a     *)
(* Task), and failures of localStorage.setItem (storage is assumed to have *)
(* room for the bounded collections).                                      *)
(***************************************************************************)
EXTENDS Integers, Sequences, FiniteSets, TLC

\* ---------------------------------------------------------------- constants
MAX_PROJECTS_PER_USER == 4

TASK_STATUS_OPTIONS == {"Open", "InProgress", "Completed"}

\* ------------------------------------------------------------------- bounds
MaxUsers == 2

MaxProjects == 5

MaxTasks == 2

\* projects created in the runs that exercise the task handlers
MaxTaskProjects == 1

MaxTime == 2

Tabs == {1, 2}

\* generateId is called once per created record; one task may be deleted and
\* created again within the bound
IdLimit == MaxUsers + MaxProjects + MaxTasks + 1

\* ------------------------------------------------------------------- values
Null == [type |-> "null"]

Undefined == [type |-> "undefined"]

\* new Date() at clock reading ms
Date(ms) == [type |-> "Date", ms |-> ms]

\* the ISO-8601 text of an instant, a JavaScript string
IsoString(ms) == [type |-> "string", iso |-> ms]

NoErrors == [k \in {} |-> ""]

\* String.prototype.trim over the strings of the model: the only strings with
\* leading or trailing white space are the all-blank ones
Trim(str) == IF str \in {"", " "} THEN "" ELSE str

\* ------------------------------------------------------------ JSON encoding
DateKeys == {"createdAt", "completedAt"}

\* Date.prototype.toJSON: a Date is written as its ISO string; a string is
\* written as itself
toJSON(v) == IF v.type = "Date" THEN IsoString(v.ms) ELSE v

\* JSON.stringify of one record: properties whose value is undefined are
\* omitted, Dates are written as strings
StringifyObject(o) ==
    [k \in {f \in DOMAIN o : ~(f \in DateKeys /\ o[f] = Undefined)} |->
        IF k \in DateKeys THEN toJSON(o[k]) ELSE o[k]]

\* JSON.parse of one record; no reviver is passed, so strings stay strings.
\* A property missing from a parsed Task reads as undefined.
ParseObject(j) ==
    [k \in DOMAIN j \cup (IF "createdAt" \in DOMAIN j THEN {"completedAt"} ELSE {}) |->
        IF k \in DOMAIN j THEN j[k] ELSE Undefined]

\* JSON.stringify(array) and JSON.stringify(record): a well-formed text
JSONstringify(arr) ==
    [type |-> "text", json |-> [n \in 1..Len(arr) |-> StringifyObject(arr[n])]]

JSONstringifyObject(o) == [type |-> "text", json |-> StringifyObject(o)]

\* a stored text that is not well-formed JSON
Garbage == [type |-> "text", malformed |-> TRUE]

\* JSON.parse throws a SyntaxError on this text
Throws(item) == item = Garbage

JSONparse(item) == [n \in 1..Len(item.json) |-> ParseObject(item.json[n])]

JSONparseObject(item) == ParseObject(item.json)

\* ------------------------------------------------------------- localStorage
StorageKeys ==
    {"taskTrackerUsers", "taskTrackerProjects", "taskTrackerTasks", "taskTrackerCurrentUser"}

\* getItem returns null for a key that is not set
EmptyStorage == [k \in StorageKeys |-> Null]

\* --------------------------------------------------------- component state
EmptySignUpForm == [name |-> "", email |-> "", password |-> "", country |-> ""]

EmptyLoginForm == [email |-> "", password |-> ""]

EmptyCreateProjectForm == [name |-> "", description |-> ""]

EmptyCreateTaskForm == [title |-> "", description |-> "", status |-> "Open"]

\* the useState defaults of TaskTrackerApp, for a tab that is not open
Closed ==
    [phase |-> "closed",
     users |-> <<>>, projects |-> <<>>, tasks |-> <<>>, currentUser |-> Null,
     selectedProjectId |-> 0,   \* null: ids start at 1
     signUpForm |-> EmptySignUpForm, loginForm |-> EmptyLoginForm,
     createProjectForm |-> EmptyCreateProjectForm,
     createTaskForm |-> EmptyCreateTaskForm, editTaskForm |-> Null,
     signUpErrors |-> NoErrors, loginErrors |-> NoErrors,
     createProjectErrors |-> NoErrors, createTaskErrors |-> NoErrors,
     loading |-> FALSE]

VARIABLES tabs, localStorage, nextId, now

vars == <<tabs, localStorage, nextId, now>>

\* the four values the save effect depends on
Deps(s) == <<s.users, s.projects, s.tasks, s.currentUser>>

\* ------------------------------------------------------------------ effects
\* the save effect: three setItem calls, then setItem or removeItem for the
\* session
SaveEffect(s) ==
    [k \in StorageKeys |->
        CASE k = "taskTrackerUsers" -> JSONstringify(s.users)
          [] k = "taskTrackerProjects" -> JSONstringify(s.projects)
          [] k = "taskTrackerTasks" -> JSONstringify(s.tasks)
          [] k = "taskTrackerCurrentUser" ->
                IF s.currentUser # Null THEN JSONstringifyObject(s.currentUser) ELSE Null]

\* the useState initializers: an item that is set is parsed, an absent one
\* gives the default
LoadState(store) ==
    [Closed EXCEPT
        !.phase = "running",
        !.users = IF store["taskTrackerUsers"] # Null
                  THEN JSONparse(store["taskTrackerUsers"]) ELSE <<>>,
        !.projects = IF store["taskTrackerProjects"] # Null
                     THEN JSONparse(store["taskTrackerProjects"]) ELSE <<>>,
        !.tasks = IF store["taskTrackerTasks"] # Null
                  THEN JSONparse(store["taskTrackerTasks"]) ELSE <<>>,
        !.currentUser = IF store["taskTrackerCurrentUser"] # Null
                        THEN JSONparseObject(store["taskTrackerCurrentUser"]) ELSE Null]

\* --------------------------------------------------------------- handlers
\* handleInputChange(form, field, value)
handleInputChange(s, form, field, value) ==
    CASE form = "signUp" -> [s EXCEPT !.signUpForm[field] = value]
      [] form = "login" -> [s EXCEPT !.loginForm[field] = value]
      [] form = "createProject" -> [s EXCEPT !.createProjectForm[field] = value]
      [] form = "createTask" -> [s EXCEPT !.createTaskForm[field] = value]
      [] form = "editTask" -> [s EXCEPT !.editTaskForm[field] = value]
      [] OTHER -> s

\* the fields of one form typed one after the other
RECURSIVE TypeInto(_, _, _, _)
TypeInto(s, form, fields, values) ==
    IF fields = {} THEN s
    ELSE LET f == CHOOSE x \in fields : TRUE
         IN TypeInto(handleInputChange(s, form, f, values[f]), form, fields \ {f}, values)

\* the required-field messages of a form
Required(form, messages) ==
    [k \in {f \in DOMAIN messages : Trim(form[f]) = ""} |-> messages[k]]

SignUpMessages ==
    [name |-> "Name is required", email |-> "Email is required",
     password |-> "Password is required", country |-> "Country is required"]

\* handleSignUp without the return after 'Email already exists'
handleSignUpNoReturn(s, id) ==
    LET errors == Required(s.signUpForm, SignUpMessages)
        newUser == [id |-> id, name |-> s.signUpForm.name, email |-> s.signUpForm.email,
                    password |-> s.signUpForm.password, country |-> s.signUpForm.country]
    IN  IF errors # NoErrors
        THEN [s EXCEPT !.signUpErrors = errors, !.loading = FALSE]
        ELSE [s EXCEPT !.signUpErrors =
                            IF \E n \in 1..Len(s.users) : s.users[n].email = s.signUpForm.email
                            THEN [email |-> "Email already exists"] ELSE errors,
                       !.users = Append(s.users, newUser),
                       !.currentUser = newUser,
                       !.signUpForm = EmptySignUpForm,
                       !.loading = FALSE]

\* handleSignUp with the duplicate test left out
handleSignUpNoDupCheck(s, id) ==
    LET errors == Required(s.signUpForm, SignUpMessages)
        newUser == [id |-> id, name |-> s.signUpForm.name, email |-> s.signUpForm.email,
                    password |-> s.signUpForm.password, country |-> s.signUpForm.country]
    IN  IF errors # NoErrors
        THEN [s EXCEPT !.signUpErrors = errors, !.loading = FALSE]
        ELSE [s EXCEPT !.signUpErrors = errors,
                       !.users = Append(s.users, newUser),
                       !.currentUser = newUser,
                       !.signUpForm = EmptySignUpForm,
                       !.loading = FALSE]

\* handleSignUp without setCurrentUser(newUser)
handleSignUpNoSession(s, id) ==
    LET errors == Required(s.signUpForm, SignUpMessages)
        newUser == [id |-> id, name |-> s.signUpForm.name, email |-> s.signUpForm.email,
                    password |-> s.signUpForm.password, country |-> s.signUpForm.country]
    IN  IF errors # NoErrors
        THEN [s EXCEPT !.signUpErrors = errors, !.loading = FALSE]
        ELSE IF \E n \in 1..Len(s.users) : s.users[n].email = s.signUpForm.email
        THEN [s EXCEPT !.signUpErrors = [email |-> "Email already exists"], !.loading = FALSE]
        ELSE [s EXCEPT !.signUpErrors = errors,
                       !.users = Append(s.users, newUser),
                       !.signUpForm = EmptySignUpForm,
                       !.loading = FALSE]

\* handleSignUp with setUsers([newUser]) in place of setUsers([...users, newUser])
handleSignUpReplacesUsers(s, id) ==
    LET errors == Required(s.signUpForm, SignUpMessages)
        newUser == [id |-> id, name |-> s.signUpForm.name, email |-> s.signUpForm.email,
                    password |-> s.signUpForm.password, country |-> s.signUpForm.country]
    IN  IF errors # NoErrors
        THEN [s EXCEPT !.signUpErrors = errors, !.loading = FALSE]
        ELSE IF \E n \in 1..Len(s.users) : s.users[n].email = s.signUpForm.email
        THEN [s EXCEPT !.signUpErrors = [email |-> "Email already exists"], !.loading = FALSE]
        ELSE [s EXCEPT !.signUpErrors = errors,
                       !.users = <<newUser>>,
                       !.currentUser = newUser,
                       !.signUpForm = EmptySignUpForm,
                       !.loading = FALSE]

\* handleSignUp with setCurrentUser(newUser) ahead of the duplicate test
handleSignUpSessionBeforeCheck(s, id) ==
    LET errors == Required(s.signUpForm, SignUpMessages)
        newUser == [id |-> id, name |-> s.signUpForm.name, email |-> s.signUpForm.email,
                    password |-> s.signUpForm.password, country |-> s.signUpForm.country]
    IN  IF errors # NoErrors
        THEN [s EXCEPT !.signUpErrors = errors, !.loading = FALSE]
        ELSE IF \E n \in 1..Len(s.users) : s.users[n].email = s.signUpForm.email
        THEN [s EXCEPT !.signUpErrors = [email |-> "Email already exists"],
                       !.currentUser = newUser, !.loading = FALSE]
        ELSE [s EXCEPT !.signUpErrors = errors,
                       !.users = Append(s.users, newUser),
                       !.currentUser = newUser,
                       !.signUpForm = EmptySignUpForm,
                       !.loading = FALSE]

handleSignUp(s, id) ==
    LET errors == Required(s.signUpForm, SignUpMessages)
        newUser == [id |-> id, name |-> s.signUpForm.name, email |-> s.signUpForm.email,
                    password |-> s.signUpForm.password, country |-> s.signUpForm.country]
    IN  IF errors # NoErrors
        THEN [s EXCEPT !.signUpErrors = errors, !.loading = FALSE]
        ELSE IF \E n \in 1..Len(s.users) : s.users[n].email = s.signUpForm.email
        THEN [s EXCEPT !.signUpErrors = [email |-> "Email already exists"], !.loading = FALSE]
        ELSE [s EXCEPT !.signUpErrors = errors,
                       !.users = Append(s.users, newUser),
                       !.currentUser = newUser,
                       !.signUpForm = EmptySignUpForm,
                       !.loading = FALSE]

\* handleLogin matching on the email alone
handleLoginEmailOnly(s) ==
    LET errors == Required(s.loginForm,
                           [email |-> "Email is required", password |-> "Password is required"])
        found == {n \in 1..Len(s.users) : s.users[n].email = s.loginForm.email}
        user == s.users[CHOOSE n \in found : \A m \in found : n <= m]
    IN  IF errors # NoErrors
        THEN [s EXCEPT !.loginErrors = errors, !.loading = FALSE]
        ELSE IF found = {}
        THEN [s EXCEPT !.loginErrors = [email |-> "Invalid credentials"], !.loading = FALSE]
        ELSE [s EXCEPT !.loginErrors = errors,
                       !.currentUser = user,
                       !.loginForm = EmptyLoginForm,
                       !.loading = FALSE]

\* handleLogin with setCurrentUser(null) on 'Invalid credentials'
handleLoginFailureClearsSession(s) ==
    LET errors == Required(s.loginForm,
                           [email |-> "Email is required", password |-> "Password is required"])
        found == {n \in 1..Len(s.users) :
                    /\ s.users[n].email = s.loginForm.email
                    /\ s.users[n].password = s.loginForm.password}
        user == s.users[CHOOSE n \in found : \A m \in found : n <= m]
    IN  IF errors # NoErrors
        THEN [s EXCEPT !.loginErrors = errors, !.loading = FALSE]
        ELSE IF found = {}
        THEN [s EXCEPT !.loginErrors = [email |-> "Invalid credentials"],
                       !.currentUser = Null, !.loading = FALSE]
        ELSE [s EXCEPT !.loginErrors = errors,
                       !.currentUser = user,
                       !.loginForm = EmptyLoginForm,
                       !.loading = FALSE]

handleLogin(s) ==
    LET errors == Required(s.loginForm,
                           [email |-> "Email is required", password |-> "Password is required"])
        found == {n \in 1..Len(s.users) :
                    /\ s.users[n].email = s.loginForm.email
                    /\ s.users[n].password = s.loginForm.password}
        \* Array.prototype.find returns the first match
        user == s.users[CHOOSE n \in found : \A m \in found : n <= m]
    IN  IF errors # NoErrors
        THEN [s EXCEPT !.loginErrors = errors, !.loading = FALSE]
        ELSE IF found = {}
        THEN [s EXCEPT !.loginErrors = [email |-> "Invalid credentials"], !.loading = FALSE]
        ELSE [s EXCEPT !.loginErrors = errors,
                       !.currentUser = user,
                       !.loginForm = EmptyLoginForm,
                       !.loading = FALSE]

handleLogout(s) == [s EXCEPT !.currentUser = Null]

\* projects.filter(p => p.userId === currentUser?.id).length; with no session
\* currentUser?.id is undefined and equals no userId
OwnedCount(projects, currentUser) ==
    IF currentUser = Null THEN 0
    ELSE Cardinality({n \in 1..Len(projects) : projects[n].userId = currentUser.id})

ProjectLimitMessage == "Maximum 4 projects allowed per user."

\* handleCreateProject with > in place of >= in the limit test
handleCreateProjectOffByOne(s, id) ==
    LET errors == Required(s.createProjectForm,
                           [name |-> "Project name is required",
                            description |-> "Project description is required"])
    IN  IF errors # NoErrors
        THEN [s EXCEPT !.createProjectErrors = errors, !.loading = FALSE]
        ELSE IF OwnedCount(s.projects, s.currentUser) > MAX_PROJECTS_PER_USER
        THEN [s EXCEPT !.createProjectErrors = [base |-> ProjectLimitMessage],
                       !.loading = FALSE]
        ELSE IF s.currentUser = Null
        THEN [s EXCEPT !.createProjectErrors = errors, !.loading = TRUE]
        ELSE [s EXCEPT !.createProjectErrors = errors,
                       !.projects = Append(s.projects,
                            [id |-> id, userId |-> s.currentUser.id,
                             name |-> s.createProjectForm.name,
                             description |-> s.createProjectForm.description]),
                       !.createProjectForm = EmptyCreateProjectForm,
                       !.loading = FALSE]

handleCreateProject(s, id) ==
    LET errors == Required(s.createProjectForm,
                           [name |-> "Project name is required",
                            description |-> "Project description is required"])
    IN  IF errors # NoErrors
        THEN [s EXCEPT !.createProjectErrors = errors, !.loading = FALSE]
        ELSE IF OwnedCount(s.projects, s.currentUser) >= MAX_PROJECTS_PER_USER
        THEN [s EXCEPT !.createProjectErrors = [base |-> ProjectLimitMessage],
                       !.loading = FALSE]
        ELSE IF s.currentUser = Null
        \* currentUser!.id throws a TypeError: the handler stops after
        \* setLoading(true) and setCreateProjectErrors(errors)
        THEN [s EXCEPT !.createProjectErrors = errors, !.loading = TRUE]
        ELSE [s EXCEPT !.createProjectErrors = errors,
                       !.projects = Append(s.projects,
                            [id |-> id, userId |-> s.currentUser.id,
                             name |-> s.createProjectForm.name,
                             description |-> s.createProjectForm.description]),
                       !.createProjectForm = EmptyCreateProjectForm,
                       !.loading = FALSE]

\* completedAt of a task written at clock reading t with the given status
CompletedAt(status, t) == IF status = "Completed" THEN Date(t) ELSE Undefined

\* handleCreateTask with projectId: generateId() in place of selectedProjectId
handleCreateTaskOwnProjectId(s, id, t) ==
    LET errors == Required(s.createTaskForm,
                           [title |-> "Title is required",
                            description |-> "Description is required",
                            status |-> "Status is required"])
    IN  IF errors # NoErrors
        THEN [s EXCEPT !.createTaskErrors = errors, !.loading = FALSE]
        ELSE [s EXCEPT !.createTaskErrors = errors,
                       !.tasks = Append(s.tasks,
                            [id |-> id, projectId |-> id,
                             title |-> s.createTaskForm.title,
                             description |-> s.createTaskForm.description,
                             status |-> s.createTaskForm.status,
                             createdAt |-> Date(t),
                             completedAt |-> CompletedAt(s.createTaskForm.status, t)]),
                       !.createTaskForm = EmptyCreateTaskForm,
                       !.loading = FALSE]

handleCreateTask(s, id, t) ==
    LET errors == Required(s.createTaskForm,
                           [title |-> "Title is required",
                            description |-> "Description is required",
                            status |-> "Status is required"])
    IN  IF errors # NoErrors
        THEN [s EXCEPT !.createTaskErrors = errors, !.loading = FALSE]
        ELSE [s EXCEPT !.createTaskErrors = errors,
                       !.tasks = Append(s.tasks,
                            [id |-> id, projectId |-> s.selectedProjectId,
                             title |-> s.createTaskForm.title,
                             description |-> s.createTaskForm.description,
                             status |-> s.createTaskForm.status,
                             createdAt |-> Date(t),
                             completedAt |-> CompletedAt(s.createTaskForm.status, t)]),
                       !.createTaskForm = EmptyCreateTaskForm,
                       !.loading = FALSE]

\* handleUpdateTask that leaves completedAt as it was
handleUpdateTaskKeepsCompletedAt(s, taskId, t) ==
    LET found == {n \in 1..Len(s.tasks) : s.tasks[n].id = taskId}
        first == s.tasks[CHOOSE n \in found : \A m \in found : n <= m]
        updatedTask == [first EXCEPT !.title = s.editTaskForm.title,
                                     !.description = s.editTaskForm.description,
                                     !.status = s.editTaskForm.status]
    IN  IF s.editTaskForm = Null THEN s
        ELSE [s EXCEPT !.tasks = [n \in 1..Len(s.tasks) |->
                                    IF s.tasks[n].id = taskId THEN updatedTask ELSE s.tasks[n]],
                       !.editTaskForm = Null,
                       !.loading = FALSE]

\* handleUpdateTask that looks the task up by editTaskForm.id and ignores its
\* argument
handleUpdateTaskByFormId(s, taskId, t) ==
    LET found == {n \in 1..Len(s.tasks) : s.tasks[n].id = s.editTaskForm.id}
        first == s.tasks[CHOOSE n \in found : \A m \in found : n <= m]
        updatedTask == [first EXCEPT !.title = s.editTaskForm.title,
                                     !.description = s.editTaskForm.description,
                                     !.status = s.editTaskForm.status,
                                     !.completedAt = CompletedAt(s.editTaskForm.status, t)]
    IN  IF s.editTaskForm = Null THEN s
        ELSE [s EXCEPT !.tasks = [n \in 1..Len(s.tasks) |->
                                    IF s.tasks[n].id = s.editTaskForm.id
                                    THEN updatedTask ELSE s.tasks[n]],
                       !.editTaskForm = Null,
                       !.loading = FALSE]

\* handleUpdateTask that keeps the completedAt of a task that was already
\* Completed
handleUpdateTaskPreservesCompletion(s, taskId, t) ==
    LET found == {n \in 1..Len(s.tasks) : s.tasks[n].id = taskId}
        first == s.tasks[CHOOSE n \in found : \A m \in found : n <= m]
        updatedTask == [first EXCEPT !.title = s.editTaskForm.title,
                                     !.description = s.editTaskForm.description,
                                     !.status = s.editTaskForm.status,
                                     !.completedAt =
                                        IF s.editTaskForm.status = "Completed"
                                           /\ first.status = "Completed"
                                        THEN first.completedAt
                                        ELSE CompletedAt(s.editTaskForm.status, t)]
    IN  IF s.editTaskForm = Null THEN s
        ELSE [s EXCEPT !.tasks = [n \in 1..Len(s.tasks) |->
                                    IF s.tasks[n].id = taskId THEN updatedTask ELSE s.tasks[n]],
                       !.editTaskForm = Null,
                       !.loading = FALSE]

\* handleUpdateTask that leaves a Completed task as it is
handleUpdateTaskCompletedIsFinal(s, taskId, t) ==
    LET found == {n \in 1..Len(s.tasks) : s.tasks[n].id = taskId}
        first == s.tasks[CHOOSE n \in found : \A m \in found : n <= m]
        updatedTask == [first EXCEPT !.title = s.editTaskForm.title,
                                     !.description = s.editTaskForm.description,
                                     !.status = s.editTaskForm.status,
                                     !.completedAt = CompletedAt(s.editTaskForm.status, t)]
    IN  IF s.editTaskForm = Null THEN s
        ELSE [s EXCEPT !.tasks = [n \in 1..Len(s.tasks) |->
                                    IF s.tasks[n].id = taskId /\ s.tasks[n].status # "Completed"
                                    THEN updatedTask ELSE s.tasks[n]],
                       !.editTaskForm = Null,
                       !.loading = FALSE]

handleUpdateTask(s, taskId, t) ==
    LET found == {n \in 1..Len(s.tasks) : s.tasks[n].id = taskId}
        first == s.tasks[CHOOSE n \in found : \A m \in found : n <= m]
        updatedTask == [first EXCEPT !.title = s.editTaskForm.title,
                                     !.description = s.editTaskForm.description,
                                     !.status = s.editTaskForm.status,
                                     !.completedAt = CompletedAt(s.editTaskForm.status, t)]
    IN  IF s.editTaskForm = Null THEN s
        ELSE [s EXCEPT !.tasks = [n \in 1..Len(s.tasks) |->
                                    IF s.tasks[n].id = taskId THEN updatedTask ELSE s.tasks[n]],
                       !.editTaskForm = Null,
                       !.loading = FALSE]

handleDeleteTask(s, taskId) ==
    [s EXCEPT !.tasks = SelectSeq(s.tasks, LAMBDA task : task.id # taskId)]

\* const userProjects: the projects of the session's user
userProjects(s) ==
    IF s.currentUser = Null THEN <<>>
    ELSE SelectSeq(s.projects, LAMBDA project : project.userId = s.currentUser.id)

\* the tasks the Tasks tab renders
visibleTasks(s) ==
    LET shown == userProjects(s)
        ids == {shown[n].id : n \in 1..Len(shown)}
    IN  SelectSeq(s.tasks, LAMBDA task : task.projectId \in ids)

\* ------------------------------------------------------------------ actions
Running(i) == tabs[i].phase = "running"

\* Commit with a save effect that depends on users alone
CommitUsersOnly(i, s2, fresh) ==
    /\ tabs' = [tabs EXCEPT ![i] = s2]
    /\ localStorage' = IF s2.users # tabs[i].users THEN SaveEffect(s2) ELSE localStorage

\* Commit with a save effect that writes only the items whose value changed
CommitChangedItems(i, s2, fresh) ==
    /\ tabs' = [tabs EXCEPT ![i] = s2]
    /\ localStorage' = [k \in StorageKeys |->
                          IF SaveEffect(s2)[k] # SaveEffect(tabs[i])[k]
                          THEN SaveEffect(s2)[k] ELSE localStorage[k]]

\* a handler of tab i took the component from tabs[i] to s2; fresh says that
\* a setter of a dependency was given a new array, which schedules the save
\* effect whatever the array holds.  setCurrentUser is compared by value: a
\* save it schedules for an equal value writes what any other save of the tab
\* writes.
Commit(i, s2, fresh) ==
    /\ tabs' = [tabs EXCEPT ![i] = s2]
    /\ localStorage' = IF fresh \/ Deps(s2) # Deps(tabs[i])
                       THEN SaveEffect(s2) ELSE localStorage

\* the user fills the sign-up form with f and presses Sign Up
SignUp(i, f) ==
    /\ Running(i)
    /\ LET s2 == handleSignUp(TypeInto(tabs[i], "signUp", DOMAIN f, f), nextId)
           created == Len(s2.users) > Len(tabs[i].users)
       IN  /\ Len(s2.users) <= MaxUsers
           /\ created => nextId < IdLimit
           /\ Commit(i, s2, created)
           /\ nextId' = IF created THEN nextId + 1 ELSE nextId
    /\ UNCHANGED now

\* the user fills the login form with f and presses Login
Login(i, f) ==
    /\ Running(i)
    /\ Commit(i, handleLogin(TypeInto(tabs[i], "login", DOMAIN f, f)), FALSE)
    /\ UNCHANGED <<nextId, now>>

Logout(i) ==
    /\ Running(i)
    /\ Commit(i, handleLogout(tabs[i]), FALSE)
    /\ UNCHANGED <<nextId, now>>

\* the user fills the project form with f and presses Create
CreateProject(i, f) ==
    /\ Running(i)
    /\ LET s2 == handleCreateProject(TypeInto(tabs[i], "createProject", DOMAIN f, f), nextId)
           created == Len(s2.projects) > Len(tabs[i].projects)
       IN  /\ Len(s2.projects) <= MaxProjects
           /\ created => nextId < IdLimit
           /\ Commit(i, s2, created)
           /\ nextId' = IF created THEN nextId + 1 ELSE nextId
    /\ UNCHANGED now

\* the Create Task button of a project card
SelectProject(i) ==
    /\ Running(i)
    /\ \E n \in 1..Len(userProjects(tabs[i])) :
         Commit(i, [tabs[i] EXCEPT !.selectedProjectId = userProjects(tabs[i])[n].id], FALSE)
    /\ UNCHANGED <<nextId, now>>

\* the user fills the task form with f and submits it; the form is reached
\* only through the Create Task button of a project card, which sets
\* selectedProjectId
CreateTask(i, f) ==
    /\ Running(i)
    /\ tabs[i].selectedProjectId # 0
    /\ LET s2 == handleCreateTask(TypeInto(tabs[i], "createTask", DOMAIN f, f), nextId, now)
           created == Len(s2.tasks) > Len(tabs[i].tasks)
       IN  /\ Len(s2.tasks) <= MaxTasks
           /\ created => nextId < IdLimit
           /\ Commit(i, s2, created)
           /\ nextId' = IF created THEN nextId + 1 ELSE nextId
    /\ UNCHANGED now

\* the Edit button of a task card copies the task into editTaskForm
EditForm(task) ==
    [id |-> task.id, title |-> task.title, description |-> task.description,
     status |-> task.status]

\* the Edit button of the n-th rendered task, the changes f typed into the
\* edit form, then handleUpdateTask(taskId)
UpdateResult(i, n, f, taskId) ==
    LET opened == [tabs[i] EXCEPT !.editTaskForm = EditForm(visibleTasks(tabs[i])[n])]
    IN  handleUpdateTask(TypeInto(opened, "editTask", DOMAIN f, f), taskId, now)

UpdateTask(i, n, f, taskId) ==
    /\ Running(i)
    /\ n \in 1..Len(visibleTasks(tabs[i]))
    /\ Commit(i, UpdateResult(i, n, f, taskId), TRUE)
    /\ UNCHANGED <<nextId, now>>

\* handleUpdateTask(taskId) with the edit form as it is
UpdateTaskNow(i, taskId) ==
    /\ Running(i)
    /\ Commit(i, handleUpdateTask(tabs[i], taskId, now), tabs[i].editTaskForm # Null)
    /\ UNCHANGED <<nextId, now>>

DeleteTask(i, taskId) ==
    /\ Running(i)
    /\ Commit(i, handleDeleteTask(tabs[i], taskId), TRUE)
    /\ UNCHANGED <<nextId, now>>

\* the first render of a new TaskTrackerApp instance in tab i.  The useState initializers
\* call JSON.parse outside any try block: a malformed item makes the render
\* throw and the component never mounts.  Otherwise the load effect parses the
\* same items again and the save effect writes the state back.
Render(i) ==
    /\ IF \E k \in StorageKeys : Throws(localStorage[k])
       THEN /\ tabs' = [tabs EXCEPT ![i] = [Closed EXCEPT !.phase = "crashed"]]
            /\ UNCHANGED localStorage
       ELSE /\ tabs' = [tabs EXCEPT ![i] = LoadState(localStorage)]
            /\ localStorage' = SaveEffect(LoadState(localStorage))
    /\ UNCHANGED <<nextId, now>>

\* tab i is opened
Mount(i) == tabs[i].phase = "closed" /\ Render(i)

\* the page of tab i is reloaded: a new component instance replaces the old
Reload(i) == Running(i) /\ Render(i)

\* tab i is closed
Close(i) ==
    /\ tabs[i].phase # "closed"
    /\ tabs' = [tabs EXCEPT ![i] = Closed]
    /\ UNCHANGED <<localStorage, nextId, now>>

\* the clock that new Date() reads advances
Tick ==
    /\ now < MaxTime
    /\ now' = now + 1
    /\ UNCHANGED <<tabs, localStorage, nextId>>

\* ------------------------------------------------------------------- inputs
Ann == [name |-> "Ann", email |-> "ann@x.com", password |-> "pw", country |-> "US"]

Bob == [name |-> "Bob", email |-> "bob@x.com", password |-> "pw2", country |-> "US"]

SignUpInputs ==
    { Ann, Bob, [name |-> " ", email |-> "bob@x.com", password |-> "pw", country |-> "US"] }

LoginInputs ==
    { [email |-> "ann@x.com", password |-> "pw"],
      [email |-> "ann@x.com", password |-> "pw2"],
      [email |-> "bob@x.com", password |-> "pw2"],
      [email |-> "ann@x.com", password |-> ""] }

Site == [name |-> "Site", description |-> "New site"]

CreateProjectInputs == { Site, [name |-> " ", description |-> "New site"] }

CreateTaskInputs ==
    { [title |-> "Call", description |-> "Call back", status |-> st] : st \in TASK_STATUS_OPTIONS }

\* a task form with a blank title
BlankTask == [title |-> " ", description |-> "Call back", status |-> "Open"]

EditInputs == { [status |-> st] : st \in TASK_STATUS_OPTIONS }

\* the ids of the tasks of tab i, and an id that no task has (generateId never
\* returns IdLimit)
TaskIdInputs(i) == {tabs[i].tasks[n].id : n \in 1..Len(tabs[i].tasks)} \cup {IdLimit}

\* the ids handleUpdateTask is called with after the Edit button of the n-th
\* rendered task: the id of that task, and an id that no task has
EditIdInputs(i, n) ==
    IF n \in 1..Len(visibleTasks(tabs[i]))
    THEN {visibleTasks(tabs[i])[n].id, IdLimit} ELSE {}

\* ----------------------------------------------------------- specifications
\* one tab, opened on an empty localStorage
Init ==
    /\ tabs = [i \in Tabs |-> IF i = 1 THEN LoadState(EmptyStorage) ELSE Closed]
    /\ localStorage = SaveEffect(LoadState(EmptyStorage))
    /\ nextId = 1
    /\ now = 0

\* accounts and projects
Next ==
    \/ \E f \in SignUpInputs : SignUp(1, f)
    \/ \E f \in LoginInputs : Login(1, f)
    \/ Logout(1)
    \/ \E f \in CreateProjectInputs : CreateProject(1, f)

Spec == Init /\ [][Next]_vars

\* every operation of one tab, with one account: the ids of the account, of
\* the projects and of the tasks
TaskRunIds == 1 + MaxTaskProjects + MaxTasks

NextTasks ==
    \/ SignUp(1, Ann)
    \/ Login(1, [email |-> "ann@x.com", password |-> "pw"])
    \/ Logout(1)
    \/ (Len(tabs[1].projects) < MaxTaskProjects /\ CreateProject(1, Site))
    \/ SelectProject(1)
    \/ (nextId <= TaskRunIds /\ \E f \in CreateTaskInputs : CreateTask(1, f))
    \/ \E n \in 1..MaxTasks, f \in EditInputs : \E taskId \in EditIdInputs(1, n) :
         UpdateTask(1, n, f, taskId)
    \/ \E taskId \in TaskIdInputs(1) : UpdateTaskNow(1, taskId)
    \/ \E taskId \in TaskIdInputs(1) : DeleteTask(1, taskId)
    \/ Reload(1)

SpecTasks == Init /\ [][NextTasks]_vars

\* the task handlers under a running clock: Ann has signed up, created a
\* project and pressed its Create Task button
AnnAtProject ==
    LET signedUp == handleSignUp(TypeInto(LoadState(EmptyStorage), "signUp", DOMAIN Ann, Ann), 1)
        created == handleCreateProject(TypeInto(signedUp, "createProject", DOMAIN Site, Site), 2)
    IN  [created EXCEPT !.selectedProjectId = 2]

InitClock ==
    /\ tabs = [i \in Tabs |-> IF i = 1 THEN AnnAtProject ELSE Closed]
    /\ localStorage = SaveEffect(AnnAtProject)
    /\ nextId = 3
    /\ now = 0

NextClock ==
    \/ (nextId <= 2 + MaxTasks /\ \E f \in CreateTaskInputs \cup {BlankTask} : CreateTask(1, f))
    \/ \E n \in 1..MaxTasks, f \in EditInputs : \E taskId \in EditIdInputs(1, n) :
         UpdateTask(1, n, f, taskId)
    \/ \E taskId \in TaskIdInputs(1) : DeleteTask(1, taskId)
    \/ Tick

SpecClock == InitClock /\ [][NextClock]_vars

\* the login form of Ann
AnnLogin == [email |-> "ann@x.com", password |-> "pw"]

\* every operation of one tab, with two accounts and as many tasks as
\* projects: the ids of the accounts, of the projects and of the tasks
AllRunIds == 2 + MaxTaskProjects + MaxTaskProjects

OpenTask == [title |-> "Call", description |-> "Call back", status |-> "Open"]

AllSignUpInputs == {Ann, Bob}

AllLoginInputs == { [email |-> "ann@x.com", password |-> "pw"],
                    [email |-> "ann@x.com", password |-> "pw2"] }

NextAll ==
    \/ \E f \in AllSignUpInputs : SignUp(1, f)
    \/ \E f \in AllLoginInputs : Login(1, f)
    \/ Logout(1)
    \/ (Len(tabs[1].projects) < MaxTaskProjects /\ CreateProject(1, Site))
    \/ SelectProject(1)
    \/ ( /\ nextId <= AllRunIds
         /\ Len(tabs[1].tasks) < MaxTaskProjects
         /\ CreateTask(1, OpenTask) )
    \/ \E n \in 1..MaxTaskProjects, f \in EditInputs : \E taskId \in EditIdInputs(1, n) :
         UpdateTask(1, n, f, taskId)
    \/ \E taskId \in TaskIdInputs(1) : DeleteTask(1, taskId)

SpecAll == Init /\ [][NextAll]_vars

\* localStorage as the first tab may find it: never written, written by an
\* earlier session in which Ann signed up, or either with one item replaced by
\* a text that is not JSON
AnnStore == SaveEffect(handleSignUp(TypeInto(LoadState(EmptyStorage), "signUp", DOMAIN Ann, Ann), 1))

BootStores ==
    {EmptyStorage, AnnStore}
    \cup { [base EXCEPT ![k] = Garbage] : base \in {EmptyStorage, AnnStore}, k \in StorageKeys }

InitBoot ==
    /\ tabs = [i \in Tabs |-> Closed]
    /\ localStorage \in BootStores
    /\ nextId = 2
    /\ now = 0

NextBoot ==
    \/ Mount(1)
    \/ Close(1)
    \/ Reload(1)
    \/ \E f \in {Ann, Bob} : SignUp(1, f)
    \/ Login(1, AnnLogin)
    \/ Logout(1)
    \/ (Len(tabs[1].projects) < MaxTaskProjects /\ CreateProject(1, Site))

SpecBoot == InitBoot /\ [][NextBoot]_vars

\* two tabs on one localStorage, never written before
InitTabs ==
    /\ tabs = [i \in Tabs |-> Closed]
    /\ localStorage = EmptyStorage
    /\ nextId = 1
    /\ now = 0

NextTabs ==
    \E i \in Tabs :
        \/ Mount(i)
        \/ SignUp(i, Ann)
        \/ Logout(i)
        \/ (Len(tabs[i].projects) < MaxTaskProjects /\ CreateProject(i, Site))

SpecTabs == InitTabs /\ [][NextTabs]_vars

\* ------------------------------------------------------------- properties
\* the number of projects of s whose owner is userId
OwnedBy(s, userId) ==
    Cardinality({n \in 1..Len(s.projects) : s.projects[n].userId = userId})

\* every field of the form f is non-blank
Filled(f) == \A k \in DOMAIN f : Trim(f[k]) # ""

\* the four localStorage items that hold the collections and the session of s
Snapshot(s) ==
    [k \in StorageKeys |->
        CASE k = "taskTrackerUsers" -> JSONstringify(s.users)
          [] k = "taskTrackerProjects" -> JSONstringify(s.projects)
          [] k = "taskTrackerTasks" -> JSONstringify(s.tasks)
          [] k = "taskTrackerCurrentUser" ->
                IF s.currentUser = Null THEN Null ELSE JSONstringifyObject(s.currentUser)]

ProjectLimitKept ==
    \A n \in 1..Len(tabs[1].projects) :
        OwnedBy(tabs[1], tabs[1].projects[n].userId) <= MAX_PROJECTS_PER_USER

FifthProjectRejected ==
    \A f \in CreateProjectInputs :
        ( /\ CreateProject(1, f)
          /\ Filled(f)
          /\ tabs[1].currentUser # Null
          /\ OwnedBy(tabs[1], tabs[1].currentUser.id) >= MAX_PROJECTS_PER_USER )
        => /\ tabs'[1].createProjectErrors = [base |-> ProjectLimitMessage]
           /\ tabs'[1].projects = tabs[1].projects

\* C1: under sign-up, log-in, log-out and create-project no user ever owns
\* more than 4 projects, and a create-project with non-blank name and
\* description by a user who owns 4 fails with the project-limit error and
\* leaves projects unchanged.
C1_ProjectLimit == []ProjectLimitKept /\ [][FifthProjectRejected]_vars

\* Ann owns 4 projects, Bob owns one, and Ann's next attempt was rejected
C1_Witness ==
    /\ tabs[1].currentUser # Null
    /\ OwnedBy(tabs[1], tabs[1].currentUser.id) = MAX_PROJECTS_PER_USER
    /\ Len(tabs[1].projects) = MAX_PROJECTS_PER_USER + 1
    /\ tabs[1].createProjectErrors = [base |-> ProjectLimitMessage]

\* C2: no two records of users have the same email.
C2_EmailsUnique ==
    \A m, n \in 1..Len(tabs[1].users) :
        m # n => tabs[1].users[m].email # tabs[1].users[n].email

\* two accounts exist and a third sign-up, with a taken email, was turned down
C2_Witness ==
    /\ Len(tabs[1].users) = 2
    /\ tabs[1].signUpErrors = [email |-> "Email already exists"]

\* C3: a sign-up with four non-blank fields and the email of an existing user
\* fails with 'Email already exists', adds no user and leaves the session as
\* it was.
C3_DuplicateEmailRejected ==
    [][\A f \in SignUpInputs :
        ( /\ SignUp(1, f)
          /\ Filled(f)
          /\ \E n \in 1..Len(tabs[1].users) : tabs[1].users[n].email = f.email )
        => /\ tabs'[1].signUpErrors = [email |-> "Email already exists"]
           /\ tabs'[1].users = tabs[1].users
           /\ tabs'[1].currentUser = tabs[1].currentUser]_vars

\* Bob is logged in and a sign-up with Ann's email was turned down
C3_Witness ==
    /\ tabs[1].signUpErrors = [email |-> "Email already exists"]
    /\ tabs[1].signUpForm.email = "ann@x.com"
    /\ tabs[1].currentUser # Null
    /\ tabs[1].currentUser.email = "bob@x.com"

\* C4: completedAt of a task is present exactly if its status is Completed,
\* in every state the task handlers and a reload leave behind.
C4_CompletedAtIffCompleted ==
    \A n \in 1..Len(tabs[1].tasks) :
        (tabs[1].tasks[n].completedAt # Undefined) <=> (tabs[1].tasks[n].status = "Completed")

\* a task loaded from localStorage (its createdAt is a string) that an update
\* has since set to Completed (its completedAt is a Date)
C4_Witness ==
    \E n \in 1..Len(tabs[1].tasks) :
        /\ tabs[1].tasks[n].status = "Completed"
        /\ tabs[1].tasks[n].createdAt.type = "string"
        /\ tabs[1].tasks[n].completedAt.type = "Date"

\* C5: a log-in with non-blank email and password that no user matches in
\* both fails with 'Invalid credentials' and leaves the session, users,
\* projects and tasks as they were.
C5_InvalidCredentials ==
    [][\A f \in LoginInputs :
        ( /\ Login(1, f)
          /\ Filled(f)
          /\ ~\E n \in 1..Len(tabs[1].users) :
                /\ tabs[1].users[n].email = f.email
                /\ tabs[1].users[n].password = f.password )
        => /\ tabs'[1].loginErrors = [email |-> "Invalid credentials"]
           /\ Deps(tabs'[1]) = Deps(tabs[1])]_vars

\* Bob is logged in; a log-in with Ann's email and Bob's password was refused
C5_Witness ==
    /\ tabs[1].loginErrors = [email |-> "Invalid credentials"]
    /\ tabs[1].loginForm = [email |-> "ann@x.com", password |-> "pw2"]
    /\ Len(tabs[1].users) = 2
    /\ tabs[1].currentUser # Null
    /\ tabs[1].currentUser.email = "bob@x.com"

\* C6: a sign-up with four non-blank fields and a new email appends one user
\* with the submitted name, email, password and country, makes that user the
\* session and empties the sign-up form.
C6_SignUpSucceeds ==
    [][\A f \in SignUpInputs :
        ( /\ SignUp(1, f)
          /\ Filled(f)
          /\ ~\E n \in 1..Len(tabs[1].users) : tabs[1].users[n].email = f.email )
        => /\ Len(tabs'[1].users) = Len(tabs[1].users) + 1
           /\ SubSeq(tabs'[1].users, 1, Len(tabs[1].users)) = tabs[1].users
           /\ LET new == tabs'[1].users[Len(tabs'[1].users)]
              IN  /\ \A k \in DOMAIN f : new[k] = f[k]
                  /\ tabs'[1].currentUser = new
           /\ tabs'[1].signUpForm = EmptySignUpForm]_vars

\* the second account has just been created
C6_Witness ==
    /\ Len(tabs[1].users) = 2
    /\ tabs[1].currentUser = tabs[1].users[2]
    /\ tabs[1].signUpForm = EmptySignUpForm
    /\ tabs[1].signUpErrors = NoErrors

\* C7: when a persisted item fails to parse at startup, the four items are
\* discarded and the component runs from the empty state.
C7_ParseFailureResets ==
    [][\A i \in Tabs :
        (Mount(i) /\ \E k \in StorageKeys : Throws(localStorage[k]))
        => /\ tabs'[i] = LoadState(EmptyStorage)
           /\ \A k \in StorageKeys : localStorage'[k] \in {Null, JSONstringify(<<>>)}]_vars

C9_RoundTrip ==
    Running(1) => Deps(LoadState(Snapshot(tabs[1]))) = Deps(tabs[1])

C11_UsersAppendOnly ==
    [][ /\ Len(tabs'[1].users) >= Len(tabs[1].users)
        /\ \A n \in 1..Len(tabs[1].users) : tabs'[1].users[n] = tabs[1].users[n] ]_vars

\* Ann's record is the first of two, as it was written at her sign-up, after
\* Bob signed up, a task was completed and the session was closed
C11_Witness ==
    /\ Len(tabs[1].users) = 2
    /\ tabs[1].users[1] = [id |-> 1, name |-> "Ann", email |-> "ann@x.com",
                           password |-> "pw", country |-> "US"]
    /\ tabs[1].users[2].email = "bob@x.com"
    /\ Len(tabs[1].projects) > 0
    /\ \E n \in 1..Len(tabs[1].tasks) : tabs[1].tasks[n].status = "Completed"
    /\ tabs[1].currentUser = Null

\* C12: in every state reached from an empty store, the projectId of each
\* task is the id of a project in projects.
C12_TaskProjectExists ==
    \A n \in 1..Len(tabs[1].tasks) :
        \E m \in 1..Len(tabs[1].projects) :
            tabs[1].tasks[n].projectId = tabs[1].projects[m].id

\* two tasks of the one project, read back from localStorage by a reload
C12_Witness ==
    /\ Len(tabs[1].projects) = 1
    /\ Len(tabs[1].tasks) = 2
    /\ \A n \in 1..2 : /\ tabs[1].tasks[n].projectId = tabs[1].projects[1].id
                       /\ tabs[1].tasks[n].createdAt.type = "string"

\* the first user whose email and password are those of the form f
Matched(s, f) ==
    LET found == {n \in 1..Len(s.users) :
                    s.users[n].email = f.email /\ s.users[n].password = f.password}
    IN  CHOOSE n \in found : \A m \in found : n <= m

LoginMatches(s, f) ==
    Filled(f) /\ \E n \in 1..Len(s.users) :
                    s.users[n].email = f.email /\ s.users[n].password = f.password

SignUpIsNew(s, f) ==
    Filled(f) /\ ~\E n \in 1..Len(s.users) : s.users[n].email = f.email

\* C13: a log-in that matches a user makes that user the session, a sign-up
\* with a new email makes the new user the session, log-out makes the session
\* null whatever it was; a refused log-in and a refused sign-up leave the
\* session as it was, and a step that changes the session is one of the three:
\* a step of create-project, of the Create Task button, of create-task,
\* update-task or delete-task, being none of them, leaves the session as it
\* was.  Each implication 'the step is operation A => the session is X' is
\* written 'the session is X, or the step is not A'.
C13_SessionFrame ==
    [][ /\ tabs'[1].currentUser = Null \/ ~Logout(1)
        /\ \A f \in AllLoginInputs :
              \/ tabs'[1].currentUser = IF LoginMatches(tabs[1], f)
                                        THEN tabs[1].users[Matched(tabs[1], f)]
                                        ELSE tabs[1].currentUser
              \/ ~Login(1, f)
        /\ \A f \in AllSignUpInputs :
              \/ IF SignUpIsNew(tabs[1], f)
                 THEN /\ Len(tabs'[1].users) = Len(tabs[1].users) + 1
                      /\ tabs'[1].currentUser = tabs'[1].users[Len(tabs'[1].users)]
                 ELSE tabs'[1].currentUser = tabs[1].currentUser
              \/ ~SignUp(1, f)
        /\ \/ tabs'[1].currentUser = tabs[1].currentUser
           \/ Logout(1)
           \/ \E f \in AllLoginInputs : LoginMatches(tabs[1], f) /\ Login(1, f)
           \/ \E f \in AllSignUpInputs : SignUpIsNew(tabs[1], f) /\ SignUp(1, f) ]_vars

\* Ann is the session again, by a log-in after Bob's sign-up, and has kept it
\* through a refused log-in and the creation of a task
C13_Witness ==
    /\ Len(tabs[1].users) = 2
    /\ tabs[1].users[1].email = "ann@x.com"
    /\ tabs[1].currentUser = tabs[1].users[1]
    /\ tabs[1].loginErrors = [email |-> "Invalid credentials"]
    /\ Len(tabs[1].tasks) > 0

\* no task of s has the id taskId
NoSuchTask(s, taskId) == \A n \in 1..Len(s.tasks) : s.tasks[n].id # taskId

\* C14: handleUpdateTask with a taskId that no task has runs to its end (the
\* edit form is closed, loading is off, no error message is set) and leaves
\* tasks, and the other collections, exactly as they were.
C14_UpdateMissingTaskNoOp ==
    [][\A n \in 1..MaxTasks, f \in EditInputs : \A taskId \in EditIdInputs(1, n) :
        (UpdateTask(1, n, f, taskId) /\ NoSuchTask(tabs[1], taskId))
        => /\ tabs'[1].tasks = tabs[1].tasks
           /\ Deps(tabs'[1]) = Deps(tabs[1])
           /\ tabs'[1].editTaskForm = Null
           /\ tabs'[1].loading = FALSE
           /\ tabs'[1].createTaskErrors = tabs[1].createTaskErrors]_vars

\* two tasks, the first Open and shown with its Edit button, from where an
\* update to Completed under an id that no task has is taken and changes
\* neither
C14_Witness ==
    /\ Len(tabs[1].tasks) = 2
    /\ Len(visibleTasks(tabs[1])) = 2
    /\ tabs[1].tasks[1].status = "Open"
    /\ NoSuchTask(tabs[1], IdLimit)
    /\ ENABLED ( /\ UpdateTask(1, 1, [status |-> "Completed"], IdLimit)
                 /\ tabs'[1].tasks = tabs[1].tasks )

\* every update step keeps the number of tasks and the id, projectId and
\* createdAt of each, and writes the clock reading into the completedAt of a
\* Completed task it sets to Completed
UpdateKeepsIdentity ==
    \A n \in 1..MaxTasks, f \in EditInputs : \A taskId \in EditIdInputs(1, n) :
        UpdateTask(1, n, f, taskId)
        => /\ Len(tabs'[1].tasks) = Len(tabs[1].tasks)
           /\ \A m \in 1..Len(tabs[1].tasks) :
                /\ tabs'[1].tasks[m].id = tabs[1].tasks[m].id
                /\ tabs'[1].tasks[m].projectId = tabs[1].tasks[m].projectId
                /\ tabs'[1].tasks[m].createdAt = tabs[1].tasks[m].createdAt
                /\ ( /\ tabs[1].tasks[m].id = taskId
                     /\ tabs[1].tasks[m].status = "Completed"
                     /\ f.status = "Completed" )
                   => tabs'[1].tasks[m].completedAt = Date(now)

\* the update to Completed of each rendered task that is Completed gives it
\* the completedAt of the present clock reading
RecompleteTakesNow ==
    \A n \in 1..Len(visibleTasks(tabs[1])) :
        visibleTasks(tabs[1])[n].status = "Completed" =>
            LET id == visibleTasks(tabs[1])[n].id
                s2 == UpdateResult(1, n, [status |-> "Completed"], id)
            IN  \A m \in 1..Len(s2.tasks) :
                    s2.tasks[m].id = id => s2.tasks[m].completedAt = Date(now)

\* C15: an update keeps the number of tasks and the id, projectId and
\* createdAt of every task; an update to Completed of a task that is
\* Completed sets its completedAt to the clock reading of the update, whatever
\* the completion time was before.
C15_RecompleteResetsCompletedAt == []RecompleteTakesNow /\ [][UpdateKeepsIdentity]_vars

\* a task that an update completed after its creation, at a clock reading that
\* has passed: its update to Completed is taken from here and replaces the
\* completion time
C15_Witness ==
    /\ Len(tabs[1].tasks) > 0
    /\ tabs[1].tasks[1].status = "Completed"
    /\ tabs[1].tasks[1].createdAt = Date(0)
    /\ tabs[1].tasks[1].completedAt = Date(1)
    /\ now = 2
    /\ ENABLED ( /\ UpdateTask(1, 1, [status |-> "Completed"], tabs[1].tasks[1].id)
                 /\ tabs'[1].tasks[1].completedAt = Date(2)
                 /\ tabs'[1].tasks[1].createdAt = Date(0) )

\* C16: in every state, for every task and every status st, the task is
\* rendered with its Edit button and its update with st in the edit form
\* leaves the task with status st and every other task with the status it
\* had: each of Open, InProgress and Completed is one update away from each,
\* and none is final.
C16_StatusFullyConnected ==
    \A m \in 1..Len(tabs[1].tasks), st \in TASK_STATUS_OPTIONS :
        /\ Running(1)
        /\ \E n \in 1..Len(visibleTasks(tabs[1])) :
              /\ visibleTasks(tabs[1])[n].id = tabs[1].tasks[m].id
              /\ LET s2 == UpdateResult(1, n, [status |-> st], tabs[1].tasks[m].id)
                 IN  /\ Len(s2.tasks) = Len(tabs[1].tasks)
                     /\ s2.tasks[m].status = st
                     /\ \A k \in 1..Len(tabs[1].tasks) :
                           k # m => s2.tasks[k].status = tabs[1].tasks[k].status

\* a task that an update made Completed, next to one InProgress, from where
\* the update back to Open is taken and removes completedAt
C16_Witness ==
    /\ Len(tabs[1].tasks) = 2
    /\ tabs[1].tasks[1].status = "Completed"
    /\ tabs[1].tasks[1].completedAt.ms > tabs[1].tasks[1].createdAt.ms
    /\ tabs[1].tasks[2].status = "InProgress"
    /\ ENABLED ( /\ UpdateTask(1, 1, [status |-> "Open"], tabs[1].tasks[1].id)
                 /\ tabs'[1].tasks[1].status = "Open"
                 /\ tabs'[1].tasks[1].completedAt = Undefined )

\* C17: in one instance started on an empty store, a session that is not null
\* equals a record of users in id, name, email, password and country, and the
\* userId of every project is the id of a record of users.
C17_SessionIsAUser ==
    /\ tabs[1].currentUser # Null =>
          \E n \in 1..Len(tabs[1].users) :
              \A k \in {"id", "name", "email", "password", "country"} :
                  tabs[1].currentUser[k] = tabs[1].users[n][k]
    /\ \A m \in 1..Len(tabs[1].projects) :
          \E n \in 1..Len(tabs[1].users) : tabs[1].projects[m].userId = tabs[1].users[n].id

\* Bob, the second user, is the session and owns the project; a sign-up with
\* a taken email was refused since
C17_Witness ==
    /\ Len(tabs[1].users) = 2
    /\ tabs[1].currentUser = tabs[1].users[2]
    /\ Len(tabs[1].projects) = 1
    /\ tabs[1].projects[1].userId = tabs[1].users[2].id
    /\ tabs[1].signUpErrors = [email |-> "Email already exists"]

====
